---- MODULE Spec2Model ----
(***************************************************************************)
(* The factfile parser of factotum (src/factotum/parser/mod.rs): parse_str *)
(* validates a document against the schema, parse_valid_json decodes it,   *)
(* templates its strings against an optional configuration, checks every   *)
(* task's onResult policy and adds the tasks to a Factfile one at a time.  *)
(*                                                                         *)
(* A text is a sequence of one-character tokens; fixed phrases of messages *)
(* and of the compact JSON are single tokens.  A placeholder is the token  *)
(* run "$" "{" key "}".                                                    *)
(***************************************************************************)
EXTENDS Integers, Sequences, FiniteSets, TLC

MaxTasks == 2

----------------------------------------------------------------------------
(* Results: Result<T, String> as a record; val is the value or the message *)

Ok(v)  == [kind |-> "Ok",  val |-> v]
Err(m) == [kind |-> "Err", val |-> m]
IsOk(r)  == r.kind = "Ok"
IsErr(r) == r.kind = "Err"

----------------------------------------------------------------------------
(* templater::decorate_str                                                 *)

HasKey(subs, key) == \E p \in subs : p[1] = key
Lookup(subs, key) == (CHOOSE p \in subs : p[1] = key)[2]

UndefinedVariable(key) == <<"undefined variable: ">> \o key

\* the first "}" at or after position j, 0 when there is none
FindClose(text, j) ==
    LET cs == {c \in j..Len(text) : text[c] = "}"}
    IN  IF cs = {} THEN 0 ELSE CHOOSE c \in cs : \A d \in cs : c <= d

\* the first "$" "{" ... "}" starting at or after position j, 0 when none
FindOpen(text, j) ==
    LET ps == {p \in j..(Len(text) - 1) :
                  /\ text[p] = "$"
                  /\ text[p + 1] = "{"
                  /\ FindClose(text, p + 2) # 0}
    IN  IF ps = {} THEN 0 ELSE CHOOSE p \in ps : \A q \in ps : p <= q

\* one pass, left to right: the text before a placeholder is copied, the
\* placeholder is replaced by its value, and the scan resumes after it
RECURSIVE decorate_from(_, _, _, _)
decorate_from(text, j, subs, out) ==
    LET p == FindOpen(text, j)
    IN  IF p = 0 THEN Ok(out \o SubSeq(text, j, Len(text)))
        ELSE LET c   == FindClose(text, p + 2)
                 key == SubSeq(text, p + 2, c - 1)
             IN  IF HasKey(subs, key)
                 THEN decorate_from(text, c + 1, subs,
                          out \o SubSeq(text, j, p - 1) \o Lookup(subs, key))
                 ELSE Err(UndefinedVariable(key))

decorate_str(text, subs) == decorate_from(text, 1, subs, <<>>)

RECURSIVE decorate_all(_, _)
decorate_all(texts, subs) ==
    IF texts = <<>> THEN Ok(<<>>)
    ELSE LET h == decorate_str(Head(texts), subs)
         IN  IF IsErr(h) THEN h
             ELSE LET t == decorate_all(Tail(texts), subs)
                  IN  IF IsErr(t) THEN t ELSE Ok(<<h.val>> \o t.val)

----------------------------------------------------------------------------
(* json::encode of SelfDescribingJson: the compact form, fields in the     *)
(* order the structs declare them                                          *)

Quote(s) == <<"\"">> \o s \o <<"\"">>

RECURSIVE encode_strs(_)
encode_strs(ss) ==
    IF ss = <<>> THEN <<>>
    ELSE Quote(Head(ss)) \o (IF Len(ss) > 1 THEN <<",">> ELSE <<>>)
                         \o encode_strs(Tail(ss))

RECURSIVE encode_ints(_)
encode_ints(ns) ==
    IF ns = <<>> THEN <<>>
    ELSE <<ToString(Head(ns))>> \o (IF Len(ns) > 1 THEN <<",">> ELSE <<>>)
                                \o encode_ints(Tail(ns))

encode_result(r) ==
    <<"{", "\"terminateJobWithSuccess\":", "[">>
        \o encode_ints(r.terminateJobWithSuccess)
        \o <<"]", ",", "\"continueJob\":", "[">>
        \o encode_ints(r.continueJob) \o <<"]", "}">>

encode_task(t) ==
    <<"{", "\"name\":">> \o Quote(t.name)
        \o <<",", "\"executor\":">> \o Quote(t.executor)
        \o <<",", "\"command\":">> \o Quote(t.command)
        \o <<",", "\"arguments\":", "[">> \o encode_strs(t.arguments)
        \o <<"]", ",", "\"dependsOn\":", "[">> \o encode_strs(t.dependsOn)
        \o <<"]", ",", "\"onResult\":">> \o encode_result(t.onResult)
        \o <<"}">>

RECURSIVE encode_tasks(_)
encode_tasks(ts) ==
    IF ts = <<>> THEN <<>>
    ELSE encode_task(Head(ts)) \o (IF Len(ts) > 1 THEN <<",">> ELSE <<>>)
                               \o encode_tasks(Tail(ts))

encode(schema) ==
    <<"{", "\"schema\":">> \o Quote(schema.schema)
        \o <<",", "\"data\":", "{", "\"name\":">> \o Quote(schema.data.name)
        \o <<",", "\"tasks\":", "[">> \o encode_tasks(schema.data.tasks)
        \o <<"]", "}", "}">>

----------------------------------------------------------------------------
(* Messages                                                                *)

NoContinueMsg(name) ==
    <<"the task '">> \o name \o <<"' has no way to continue successfully.">>

ConflictMsg(name) ==
    <<"the task '">> \o name \o <<"' has conflicting actions.">>

NotValidPhrase == "' is not a valid factotum factfile: "

NotValid(from, msg) == <<"'">> \o from \o <<NotValidPhrase>> \o msg

SchemaDiagnostic == <<"schema diagnostic">>
DecoderError     == <<"decoder error">>

----------------------------------------------------------------------------
(* factfile::Factfile                                                      *)

Factfile_new(raw, name) == [raw |-> raw, name |-> name, tasks |-> <<>>]

DuplicateMsg(name) == <<"task '">> \o name \o <<"' has been added already">>
UnknownDepMsg(name, dep) ==
    <<"task '">> \o name \o <<"' depends on unknown task '">> \o dep \o <<"'">>

HasTask(f, name) == \E n \in 1..Len(f.tasks) : f.tasks[n].name = name

add_task_rejection(f, task) ==
    IF HasTask(f, task.name) THEN DuplicateMsg(task.name)
    ELSE IF \E d \in 1..Len(task.depends_on) : ~HasTask(f, task.depends_on[d])
         THEN LET d == CHOOSE e \in 1..Len(task.depends_on) :
                          /\ ~HasTask(f, task.depends_on[e])
                          /\ \A g \in 1..(e - 1) : HasTask(f, task.depends_on[g])
              IN  UnknownDepMsg(task.name, task.depends_on[d])
         ELSE <<>>

NewTask(name, depends_on, executor, command, args, terminate_job_on, continue_job_on) ==
    [name |-> name, depends_on |-> depends_on, executor |-> executor,
     command |-> command, arguments |-> args,
     terminate_job_on |-> terminate_job_on, continue_job_on |-> continue_job_on]

----------------------------------------------------------------------------
(* Inputs of one parse_str invocation                                      *)

PhK == <<"$", "{", "k", "}">>
PhR == <<"$", "{", "r", "}">>
PhE == <<"$", "{", "e", "}">>

TaskNames == {<<"a">>, PhK}

\* executor, command, arguments, dependsOn: without and with placeholders
TaskBodies ==
    {[executor |-> <<"s">>, command |-> <<"r">>,
      arguments |-> << <<"x">> >>, dependsOn |-> <<>>],
     [executor |-> <<"s">> \o PhE, command |-> <<"r", " ">> \o PhK,
      arguments |-> <<PhK, <<"x">>>>, dependsOn |-> <<PhK>>]}

\* onResult: a valid policy, an empty continueJob, an intersecting pair
TaskResults ==
    {[terminateJobWithSuccess |-> <<1>>, continueJob |-> <<0>>],
     [terminateJobWithSuccess |-> <<1>>, continueJob |-> <<>>],
     [terminateJobWithSuccess |-> <<1>>, continueJob |-> <<0, 1>>]}

FactfileTaskFormats ==
    {[name |-> n, executor |-> b.executor, command |-> b.command,
      arguments |-> b.arguments, dependsOn |-> b.dependsOn, onResult |-> r] :
        n \in TaskNames, b \in TaskBodies, r \in TaskResults}

TaskLists == UNION {[1..n -> FactfileTaskFormats] : n \in 0..MaxTasks}

JobNames == {<<"j">>, <<"j">> \o PhR}

SchemaId == <<"i">>

EmptyFormat == [name |-> <<>>, tasks |-> <<>>]

\* A document text is opaque: what the schema validator and the decoder
\* make of it is what the parser sees.
Documents ==
    {[valid |-> FALSE, decodable |-> FALSE,
      schema |-> [schema |-> SchemaId, data |-> EmptyFormat]],
     [valid |-> TRUE, decodable |-> FALSE,
      schema |-> [schema |-> SchemaId, data |-> EmptyFormat]]}
    \cup {[valid |-> TRUE, decodable |-> TRUE,
           schema |-> [schema |-> SchemaId,
                       data |-> [name |-> n, tasks |-> ts]]] :
            n \in JobNames, ts \in TaskLists}

\* Option<Json>: None, or a flat object as a set of <<key, value>> pairs
NoEnv == [some |-> FALSE, subs |-> {}]
Envs ==
    {NoEnv,
     [some |-> TRUE, subs |-> {}],
     [some |-> TRUE, subs |-> {<< <<"k">>, <<"b">> >>, << <<"e">>, <<"h">> >>}],
     [some |-> TRUE, subs |-> {<< <<"k">>, <<"b">> >>, << <<"e">>, <<"h">> >>,
                               << <<"r">>, PhK >>}]}

NoOverride == [all |-> FALSE, continue_job |-> <<>>, terminate_early |-> <<>>]
Overrides ==
    {NoOverride,
     [all |-> TRUE, continue_job |-> <<1>>, terminate_early |-> <<0>>],
     [all |-> TRUE, continue_job |-> <<>>,  terminate_early |-> <<0>>],
     [all |-> TRUE, continue_job |-> <<0>>, terminate_early |-> <<0>>]}

Filename == <<"f">>

----------------------------------------------------------------------------
VARIABLES
    json,               \* the document given to parse_str
    env,                \* the optional configuration
    overrides,          \* OverrideResultMappings
    pc,                 \* position in parse_str / parse_valid_json
    decoded_json,       \* schema.data once decoded
    compact_json,       \* json::encode(&schema)
    final_compact_json,
    final_dag_name,
    ff,                 \* the Factfile under construction
    idx,                \* position of the for loop in decoded_json.tasks
    final_name,         \* of the task the loop is at
    decorated,          \* decorated_command, decorated_args, decorated_deps
    ret,                \* what parse_valid_json returned
    result,             \* what parse_str returned
    calls,              \* the add_task calls made, in order
    rejected            \* the rejections add_task answered, in order

vars == <<json, env, overrides, pc, decoded_json, compact_json,
          final_compact_json, final_dag_name, ff, idx, final_name, decorated,
          ret, result, calls, rejected>>

Nothing == [kind |-> "None", val |-> <<>>]
NoDecorated == [command |-> <<>>, args |-> <<>>, deps |-> <<>>]

Init ==
    /\ json \in Documents
    /\ env \in Envs
    /\ overrides \in Overrides
    /\ pc = "parse_str"
    /\ decoded_json = EmptyFormat
    /\ compact_json = <<>>
    /\ final_compact_json = <<>>
    /\ final_dag_name = <<>>
    /\ ff = Factfile_new(<<>>, <<>>)
    /\ idx = 1
    /\ final_name = <<>>
    /\ decorated = NoDecorated
    /\ ret = Nothing
    /\ result = Nothing
    /\ calls = <<>>
    /\ rejected = <<>>

inputs == <<json, env, overrides>>

\* a parser that templates against an empty configuration when it has none
decorate_if_always(text) == decorate_str(text, env.subs)

\* a parser that takes an empty configuration for no configuration
decorate_if_nonempty(text) ==
    IF env.some /\ env.subs # {} THEN decorate_str(text, env.subs) ELSE Ok(text)

\* if let Some(ref subs) = conf { decorate_str(text, subs)? } else { text.clone() }
decorate_if(text) ==
    IF env.some THEN decorate_str(text, env.subs) ELSE Ok(text)

\* a loop that walks decoded_json.tasks from the back
file_task_rev == decoded_json.tasks[Len(decoded_json.tasks) + 1 - idx]

\* line 144: the task the loop is at
file_task == decoded_json.tasks[idx]

----------------------------------------------------------------------------
(* parse_str                                                               *)

\* lines 59-85: the schema validator's verdict; its diagnostic is wrapped
ValidateSchema ==
    /\ pc = "parse_str"
    /\ IF json.valid
       THEN /\ pc' = "decode"
            /\ result' = result
       ELSE /\ pc' = "done"
            /\ result' = Err(NotValid(Filename, SchemaDiagnostic))
    /\ UNCHANGED <<inputs, decoded_json, compact_json, final_compact_json,
                   final_dag_name, ff, idx, final_name, decorated, ret,
                   calls, rejected>>

\* lines 68-73: parse_valid_json has returned; map_err wraps its message
MapErr ==
    /\ pc = "map_err"
    /\ result' = IF IsOk(ret) THEN ret ELSE Err(NotValid(Filename, ret.val))
    /\ pc' = "done"
    /\ UNCHANGED <<inputs, decoded_json, compact_json, final_compact_json,
                   final_dag_name, ff, idx, final_name, decorated, ret,
                   calls, rejected>>

----------------------------------------------------------------------------
(* parse_valid_json                                                        *)

\* lines 124-126
Decode ==
    /\ pc = "decode"
    /\ IF json.decodable
       THEN /\ decoded_json' = json.schema.data
            /\ compact_json' = encode(json.schema)
            /\ pc' = "compact_json"
            /\ ret' = ret
       ELSE /\ ret' = Err(DecoderError)
            /\ pc' = "map_err"
            /\ UNCHANGED <<decoded_json, compact_json>>
    /\ UNCHANGED <<inputs, final_compact_json, final_dag_name, ff, idx,
                   final_name, decorated, result, calls, rejected>>

\* lines 128-133
TemplateCompactJson ==
    /\ pc = "compact_json"
    /\ LET r == decorate_if(compact_json)
       IN  IF IsOk(r)
           THEN /\ final_compact_json' = r.val
                /\ pc' = "dag_name"
                /\ ret' = ret
           ELSE /\ ret' = r
                /\ pc' = "map_err"
                /\ final_compact_json' = final_compact_json
    /\ UNCHANGED <<inputs, decoded_json, compact_json, final_dag_name, ff,
                   idx, final_name, decorated, result, calls, rejected>>

\* lines 135-142
TemplateDagName ==
    /\ pc = "dag_name"
    /\ LET r == decorate_if(decoded_json.name)
       IN  IF IsOk(r)
           THEN /\ final_dag_name' = r.val
                /\ ff' = Factfile_new(final_compact_json, r.val)
                /\ pc' = "for"
                /\ ret' = ret
           ELSE /\ ret' = r
                /\ pc' = "map_err"
                /\ UNCHANGED <<final_dag_name, ff>>
    /\ UNCHANGED <<inputs, decoded_json, compact_json, final_compact_json,
                   idx, final_name, decorated, result, calls, rejected>>

\* lines 144-153: the loop takes the next task and templates its name
TemplateTaskName ==
    /\ pc = "for"
    /\ idx <= Len(decoded_json.tasks)
    /\ LET r == decorate_if(file_task.name)
       IN  IF IsOk(r)
           THEN /\ final_name' = r.val
                /\ pc' = "on_result"
                /\ ret' = ret
           ELSE /\ ret' = r
                /\ pc' = "map_err"
                /\ final_name' = final_name
    /\ UNCHANGED <<inputs, decoded_json, compact_json, final_compact_json,
                   final_dag_name, ff, idx, decorated, result, calls,
                   rejected>>

Intersect(xs, ys) ==
    \E c \in 1..Len(xs) : \E t \in 1..Len(ys) : ys[t] = xs[c]

\* a check that forgets the inner loop over terminateJobWithSuccess
policy_error_no_conflict(task, name) ==
    IF Len(task.onResult.continueJob) = 0 THEN NoContinueMsg(name) ELSE <<>>

\* a check that forgets the len() == 0 test
policy_error_no_empty(task, name) ==
    IF Intersect(task.onResult.continueJob,
                 task.onResult.terminateJobWithSuccess)
    THEN ConflictMsg(name) ELSE <<>>

\* a check made on the lists about to be submitted, the override applied
policy_error_after_override(task, name) ==
    LET c == IF overrides.all THEN overrides.continue_job
             ELSE task.onResult.continueJob
        t == IF overrides.all THEN overrides.terminate_early
             ELSE task.onResult.terminateJobWithSuccess
    IN  IF Len(c) = 0 THEN NoContinueMsg(name)
        ELSE IF Intersect(c, t) THEN ConflictMsg(name) ELSE <<>>

\* lines 155-174: the document-declared lists; <<>> when they pass
policy_error(task, name) ==
    IF Len(task.onResult.continueJob) = 0
    THEN NoContinueMsg(name)
    ELSE IF \E c \in 1..Len(task.onResult.continueJob) :
              \E t \in 1..Len(task.onResult.terminateJobWithSuccess) :
                 task.onResult.terminateJobWithSuccess[t]
                     = task.onResult.continueJob[c]
         THEN ConflictMsg(name)
         ELSE <<>>

CheckOnResult ==
    /\ pc = "on_result"
    /\ LET e == policy_error(file_task, final_name)
       IN  IF e = <<>>
           THEN /\ pc' = "decorate"
                /\ ret' = ret
           ELSE /\ ret' = Err(e)
                /\ pc' = "map_err"
    /\ UNCHANGED <<inputs, decoded_json, compact_json, final_compact_json,
                   final_dag_name, ff, idx, final_name, decorated, result,
                   calls, rejected>>

\* lines 176-216: command, arguments, dependsOn
decorate_task(task) ==
    IF env.some
    THEN LET c == decorate_str(task.command, env.subs)
             a == decorate_all(task.arguments, env.subs)
             d == decorate_all(task.dependsOn, env.subs)
         IN  IF IsErr(c) THEN c
             ELSE IF IsErr(a) THEN a
             ELSE IF IsErr(d) THEN d
             ELSE Ok([command |-> c.val, args |-> a.val, deps |-> d.val])
    ELSE Ok([command |-> <<>>, args |-> task.arguments,
             deps |-> task.dependsOn])

DecorateTask ==
    /\ pc = "decorate"
    /\ LET r == decorate_task(file_task)
       IN  IF IsOk(r)
           THEN /\ decorated' = r.val
                /\ pc' = "add_task"
                /\ ret' = ret
           ELSE /\ ret' = r
                /\ pc' = "map_err"
                /\ decorated' = decorated
    /\ UNCHANGED <<inputs, decoded_json, compact_json, final_compact_json,
                   final_dag_name, ff, idx, final_name, result, calls,
                   rejected>>

\* the override's two lists taken in the other order
mappings_swapped(task) ==
    IF overrides.all
    THEN <<overrides.continue_job, overrides.terminate_early>>
    ELSE <<task.onResult.terminateJobWithSuccess, task.onResult.continueJob>>

\* lines 221-229: (terminate_mappings, continue_mappings)
mappings(task) ==
    IF overrides.all
    THEN <<overrides.terminate_early, overrides.continue_job>>
    ELSE <<task.onResult.terminateJobWithSuccess, task.onResult.continueJob>>

\* lines 231-239: the arguments of the add_task call
submitted_task(task) ==
    NewTask(final_name, decorated.deps, task.executor, task.command,
            decorated.args, mappings(task)[1], mappings(task)[2])

\* lines 218-240: add_task is called and nothing it answers is looked at;
\* a rejecting add_task either panics or answers an error that is dropped
AddTask ==
    /\ pc = "add_task"
    /\ LET t   == submitted_task(file_task)
           rej == add_task_rejection(ff, t)
       IN  /\ calls' = Append(calls, t)
           /\ IF rej = <<>>
              THEN /\ ff' = [ff EXCEPT !.tasks = Append(@, t)]
                   /\ rejected' = rejected
                   /\ idx' = idx + 1
                   /\ pc' = "for"
              ELSE /\ ff' = ff
                   /\ rejected' = Append(rejected, rej)
                   /\ \/ /\ pc' = "panicked"
                         /\ idx' = idx
                      \/ /\ pc' = "for"
                         /\ idx' = idx + 1
    /\ UNCHANGED <<inputs, decoded_json, compact_json, final_compact_json,
                   final_dag_name, final_name, decorated, ret, result>>

\* line 241
ReturnOk ==
    /\ pc = "for"
    /\ idx > Len(decoded_json.tasks)
    /\ ret' = Ok(ff)
    /\ pc' = "map_err"
    /\ UNCHANGED <<inputs, decoded_json, compact_json, final_compact_json,
                   final_dag_name, ff, idx, final_name, decorated, result,
                   calls, rejected>>

Next ==
    \/ ValidateSchema
    \/ MapErr
    \/ Decode
    \/ TemplateCompactJson
    \/ TemplateDagName
    \/ TemplateTaskName
    \/ CheckOnResult
    \/ DecorateTask
    \/ AddTask
    \/ ReturnOk

Spec == Init /\ [][Next]_vars

----------------------------------------------------------------------------
(* Vocabulary of the properties                                            *)

Decodable == json.valid /\ json.decodable

DocTasks == json.schema.data.tasks

Returned == pc = "done"

OwnContinue(n)  == DocTasks[n].onResult.continueJob
OwnTerminate(n) == DocTasks[n].onResult.terminateJobWithSuccess

EmptyPolicy(n)       == OwnContinue(n) = <<>>
ConflictingPolicy(n) == \E x \in 0..1 :
    /\ \E c \in 1..Len(OwnContinue(n)) : OwnContinue(n)[c] = x
    /\ \E t \in 1..Len(OwnTerminate(n)) : OwnTerminate(n)[t] = x
ValidPolicy(n) == ~EmptyPolicy(n) /\ ~ConflictingPolicy(n)

TaskIndexes == IF Decodable THEN 1..Len(DocTasks) ELSE {}

\* the keys of the placeholders written in a text
PlaceholderKeys(text) ==
    {SubSeq(text, p + 2, c - 1) : <<p, c>> \in
        {<<q, d>> \in (1..Len(text)) \X (1..Len(text)) :
            /\ text[q] = "$"
            /\ q + 1 < d
            /\ text[q + 1] = "{"
            /\ text[d] = "}"
            /\ \A m \in (q + 2)..(d - 1) : text[m] # "}"}}

Range(f) == {f[x] : x \in DOMAIN f}

\* the string fields that are templated, and all the strings of the document
TemplatedFields ==
    {json.schema.data.name}
        \cup UNION {{DocTasks[n].name, DocTasks[n].command}
                        \cup Range(DocTasks[n].arguments)
                        \cup Range(DocTasks[n].dependsOn) : n \in TaskIndexes}

StringFields ==
    TemplatedFields \cup {json.schema.schema}
        \cup {DocTasks[n].executor : n \in TaskIndexes}

Absent(key) == \A pr \in env.subs : pr[1] # key

AbsentKeys(fields) ==
    {key \in UNION {PlaceholderKeys(f) : f \in fields} : Absent(key)}

TemplatingFails == env.some /\ AbsentKeys(StringFields) # {}

\* the value a text has after templating, when templating applies
Resolved(text) == IF env.some THEN decorate_str(text, env.subs).val ELSE text

ResolvedAll(texts) == [x \in DOMAIN texts |-> Resolved(texts[x])]

----------------------------------------------------------------------------
\* C2: a document with a task whose declared continueJob is empty never
\* parses to a graph, whatever the override: a returned parse is an error,
\* and no add_task call is ever made for that task.
C2_EmptyContinueRejected ==
    \A n \in TaskIndexes :
        EmptyPolicy(n) =>
            /\ ~IsOk(result)
            /\ ~IsOk(ret)
            /\ Returned => IsErr(result)
            /\ Len(calls) < n

C2_Witness ==
    /\ Returned
    /\ overrides.all
    /\ overrides.continue_job # <<>>
    /\ Len(calls) = 1
    /\ \E n \in TaskIndexes :
          /\ n = 2
          /\ EmptyPolicy(n)
          /\ result = Err(NotValid(Filename, NoContinueMsg(final_name)))

----------------------------------------------------------------------------
IsUndefinedVariable(msg) == \E j \in 1..Len(msg) : msg[j] = "undefined variable: "

\* the Factfile exists from line 142 on
HasFactfile == pc \in {"for", "on_result", "decorate", "add_task", "panicked"}
                   \/ IsOk(ret)

\* C5: without a configuration nothing is templated: no undefined-variable
\* error is ever returned, the Factfile carries the decoded job name and the
\* compact JSON as encoded, and every add_task call carries the task's
\* name, command, arguments and dependsOn as decoded.
C5_NoEnvNoTemplating ==
    ~env.some =>
        /\ ~(IsErr(ret) /\ IsUndefinedVariable(ret.val))
        /\ ~(IsErr(result) /\ IsUndefinedVariable(result.val))
        /\ HasFactfile =>
              /\ ff.name = json.schema.data.name
              /\ ff.raw = encode(json.schema)
        /\ IsOk(result) => result.val = ff
        /\ \A j \in 1..Len(calls) :
              /\ calls[j].name = DocTasks[j].name
              /\ calls[j].command = DocTasks[j].command
              /\ calls[j].arguments = DocTasks[j].arguments
              /\ calls[j].depends_on = DocTasks[j].dependsOn

C5_Witness ==
    /\ ~env.some
    /\ Returned
    /\ IsOk(result)
    /\ result.val.name = <<"j">> \o PhR
    /\ Len(result.val.tasks) = 2
    /\ result.val.tasks[1].name = PhK
    /\ result.val.tasks[2].depends_on = <<PhK>>
    /\ result.val.tasks[2].command = <<"r", " ">> \o PhK

SubmittedFrom(call, n) ==
    /\ call.name = Resolved(DocTasks[n].name)
    /\ call.executor = DocTasks[n].executor
    /\ call.command \in {DocTasks[n].command, Resolved(DocTasks[n].command)}
    /\ call.arguments = ResolvedAll(DocTasks[n].arguments)
    /\ call.depends_on = ResolvedAll(DocTasks[n].dependsOn)

RECURSIVE IsSubsequence(_, _)
IsSubsequence(xs, ys) ==
    IF xs = <<>> THEN TRUE
    ELSE IF ys = <<>> THEN FALSE
    ELSE IF Head(xs) = Head(ys) THEN IsSubsequence(Tail(xs), Tail(ys))
    ELSE IsSubsequence(xs, Tail(ys))

----------------------------------------------------------------------------
AllPoliciesValid == \A n \in TaskIndexes : ValidPolicy(n)

CarriesOverride(call) ==
    /\ call.continue_job_on = overrides.continue_job
    /\ call.terminate_job_on = overrides.terminate_early

CarriesOwn(call, n) ==
    /\ call.continue_job_on = OwnContinue(n)
    /\ call.terminate_job_on = OwnTerminate(n)

CarriesPolicy ==
    \A j \in 1..Len(calls) :
        IF overrides.all THEN CarriesOverride(calls[j])
        ELSE CarriesOwn(calls[j], j)

\* C3 as stated: under All(C, T), a document whose tasks all have a valid
\* policy of their own parses to a graph, every task of which went to
\* add_task with C as continue set and T as terminate set; under None every
\* task went with its own lists.
C3_AsStated ==
    /\ CarriesPolicy
    /\ (Returned /\ Decodable /\ overrides.all /\ AllPoliciesValid) =>
          /\ IsOk(result)
          /\ Len(calls) = Len(DocTasks)

\* C3 as amended: every add_task call carries C and T under All(C, T), in
\* the continue and the terminate position, and the task's own lists under
\* None; a document whose tasks all have a valid policy never fails the
\* policy check: a returned parse is a graph for which every descriptor
\* was submitted, unless templating failed, and then it is the
\* undefined-variable error.
C3_OverridePrecedence ==
    /\ CarriesPolicy
    /\ (Returned /\ Decodable /\ AllPoliciesValid) =>
          IF TemplatingFails
          THEN IsErr(result) /\ IsUndefinedVariable(result.val)
          ELSE IsOk(result) /\ Len(calls) = Len(DocTasks)

C3_Witness ==
    /\ Returned
    /\ overrides.all
    /\ overrides.continue_job = <<1>>
    /\ overrides.terminate_early = <<0>>
    /\ IsOk(result)
    /\ Len(result.val.tasks) = 2
    /\ OwnContinue(1) = <<0>>
    /\ result.val.tasks[1].continue_job_on = <<1>>
    /\ result.val.tasks[1].terminate_job_on = <<0>>

----------------------------------------------------------------------------
InvalidPolicies == {n \in TaskIndexes : ~ValidPolicy(n)}

FirstInvalid == CHOOSE n \in InvalidPolicies : \A m \in InvalidPolicies : n <= m

\* C1 as stated: whenever some task's declared lists share an exit code, a
\* returned parse is the conflicting-actions error naming such a task, for
\* every configuration and override, and no graph is returned.
C1_AsStated ==
    (\E n \in TaskIndexes : ConflictingPolicy(n)) =>
        /\ ~IsOk(result)
        /\ Returned =>
              \E n \in TaskIndexes :
                  /\ ConflictingPolicy(n)
                  /\ \/ result = Err(NotValid(Filename, ConflictMsg(DocTasks[n].name)))
                     \/ result = Err(NotValid(Filename,
                                        ConflictMsg(Resolved(DocTasks[n].name))))

\* C1 as amended: whenever some task's declared lists share an exit code,
\* no graph is returned, for every configuration and override; a returned
\* parse is the conflicting-actions error naming, by its resolved name, the
\* first task of the document whose declared policy is invalid, when that
\* task's lists share a code and templating did not fail.
C1_ConflictRejected ==
    (\E n \in TaskIndexes : ConflictingPolicy(n)) =>
        /\ ~IsOk(result)
        /\ ~IsOk(ret)
        /\ Returned => IsErr(result)
        /\ (Returned /\ ~TemplatingFails /\ ConflictingPolicy(FirstInvalid)) =>
              /\ result = Err(NotValid(Filename,
                                 ConflictMsg(Resolved(DocTasks[FirstInvalid].name))))
              /\ Len(calls) = FirstInvalid - 1

C1_Witness ==
    /\ Returned
    /\ overrides.all
    /\ env.some
    /\ Len(DocTasks) = 2
    /\ ValidPolicy(1)
    /\ ConflictingPolicy(2)
    /\ DocTasks[2].name = PhK
    /\ result = Err(NotValid(Filename, ConflictMsg(<<"b">>)))

----------------------------------------------------------------------------
Disjoint(xs, ys) ==
    \A c \in 1..Len(xs) : \A t \in 1..Len(ys) : xs[c] # ys[t]

\* C8 as stated: every add_task call made carries a non-empty continue set
\* disjoint from its terminate set, for every override.
C8_AsStated ==
    \A j \in 1..Len(calls) :
        /\ calls[j].continue_job_on # <<>>
        /\ Disjoint(calls[j].continue_job_on, calls[j].terminate_job_on)

\* C8 as amended: every add_task call made is for a task whose declared
\* continueJob is non-empty and disjoint from its declared
\* terminateJobWithSuccess; the sets the call carries are non-empty and
\* disjoint when the override is None, or All(C, T) with C non-empty and
\* disjoint from T.
C8_SubmittedPolicyCoherent ==
    \A j \in 1..Len(calls) :
        /\ OwnContinue(j) # <<>>
        /\ Disjoint(OwnContinue(j), OwnTerminate(j))
        /\ (overrides.all =>
               /\ overrides.continue_job # <<>>
               /\ Disjoint(overrides.continue_job, overrides.terminate_early))
           => /\ calls[j].continue_job_on # <<>>
              /\ Disjoint(calls[j].continue_job_on, calls[j].terminate_job_on)

C8_Witness ==
    /\ Len(calls) = 2
    /\ overrides.all
    /\ overrides.continue_job # <<>>
    /\ Disjoint(overrides.continue_job, overrides.terminate_early)
    /\ calls[2].continue_job_on = overrides.continue_job
    /\ pc = "for"

----------------------------------------------------------------------------
\* C4: with a configuration, every task of a returned graph went to
\* add_task with its name, its command, each argument and each dependency
\* templated, and with its executor and exit-code lists as they are.
C4_TemplatedFieldsSubmitted ==
    (env.some /\ Returned /\ IsOk(result) /\ rejected = <<>>) =>
        \A j \in 1..Len(calls) :
            /\ calls[j].name = Resolved(DocTasks[j].name)
            /\ calls[j].command = Resolved(DocTasks[j].command)
            /\ calls[j].arguments = ResolvedAll(DocTasks[j].arguments)
            /\ calls[j].depends_on = ResolvedAll(DocTasks[j].dependsOn)
            /\ calls[j].executor = DocTasks[j].executor
            /\ calls[j].terminate_job_on = mappings(DocTasks[j])[1]
            /\ calls[j].continue_job_on = mappings(DocTasks[j])[2]

\* C7: once add_task has rejected a task, parse_valid_json stops there and
\* parse_str returns the error whose cause is that rejection; no graph is
\* returned after a rejection.
C7_RejectionPropagated ==
    rejected # <<>> =>
        /\ Len(rejected) = 1
        /\ ~IsOk(ret)
        /\ ~IsOk(result)
        /\ pc \in {"map_err", "done"}
        /\ Returned => result = Err(NotValid(Filename, rejected[1]))

Count(msg, token) == Cardinality({j \in 1..Len(msg) : msg[j] = token})

Finished == pc \in {"done", "panicked"}

\* C10: a parse_str that has finished after a failure of any stage (schema
\* validation, decoding, templating, policy check, graph admission) has
\* returned an error, made of the file name, the "is not a valid" phrase
\* once, and the cause the stage gave; it has returned no graph.
C10_EveryFailureWrappedOnce ==
    Finished =>
        /\ ~json.valid => result = Err(NotValid(Filename, SchemaDiagnostic))
        /\ (json.valid /\ ~json.decodable) =>
              result = Err(NotValid(Filename, DecoderError))
        /\ IsErr(ret) => result = Err(NotValid(Filename, ret.val))
        /\ rejected # <<>> =>
              result = Err(NotValid(Filename, rejected[1]))
        /\ IsErr(result) => Count(result.val, NotValidPhrase) = 1
        /\ IsOk(result) => (IsOk(ret) /\ rejected = <<>>)

====
